---- MODULE Spec2Model ----
(***************************************************************************)
(* A model of ecs_deployer.py: one run of main(), from the parsed command  *)
(* line to the process exit, with the remote ECS / CodeDeploy API as an    *)
(* external collaborator whose answers are drawn nondeterministically.     *)
(***************************************************************************)
EXTENDS Integers, Sequences, FiniteSets, TLC

(***************************************************************************)
(* Bounds of the model.                                                    *)
(***************************************************************************)
\* longest list of -i (container-name, image) overrides on the command line
MaxImages == 2
\* most container definitions in a task definition
MaxContainers == 2
\* largest -t timeout (seconds)
MaxTimeout == 3
\* largest -b poll interval (seconds)
MaxBackoff == 2
\* most seconds one poll iteration takes beyond the sleep
MaxLag == 1
\* most running tasks list_tasks reports
MaxTasks == 2

(***************************************************************************)
(* Values.                                                                 *)
(***************************************************************************)
\* Python's None for an optional string
None == "None"

\* Python truthiness of an optional string: None and '' are falsy
Truthy(s) == s \notin {None, ""}

\* container names a task definition uses, in the order it lists them
ContainerNames == <<"app", "db", "cache">>

\* names an override may give: a task definition's names, whether or not the
\* fetched definition has that many containers
OverrideNames == {"app", "db"}

ImageRefs == {"repo/app:1", "repo/app:2"}

\* portMappings of a container definition: the key missing, an empty list,
\* or a list of containerPort values
NoPortMappings == [present |-> FALSE, ports |-> <<>>]
PortMappings(ports) == [present |-> TRUE, ports |-> ports]
PortMappingChoices == {NoPortMappings, PortMappings(<<>>), PortMappings(<<80>>)}

\* ARNs: the target service's current task definition, the sibling service's,
\* and the one register_task_definition returns
SourceArn == "web:3"
SiblingArn == "api:7"
NewArn == "web:4"

\* messages of the remote errors (botocore ClientError) the code tells apart
MsgClusterNotFound == "Cluster not found."
MsgTasksEmpty == "Tasks cannot be empty."
MsgOther == "Throttling"

\* all sequences over S of length lo..hi
SeqsOf(S, lo, hi) == UNION {[1..n -> S] : n \in lo..hi}

\* a container definition
ContainerDef(n, i, p) == [name |-> n, image |-> i, portMappings |-> p]

\* the container lists a task definition may hold: container k is named
\* ContainerNames[k]
ContainerLists(maxLen) ==
    UNION {{[k \in 1..n |-> ContainerDef(ContainerNames[k], f[k][1], f[k][2])] :
              f \in [1..n -> ImageRefs \X PortMappingChoices]} : n \in 0..maxLen}

\* a task definition as describe_task_definition returns it
TaskDefinition(cs) == [family |-> "web", volumes |-> <<"data">>, containerDefinitions |-> cs]


(***************************************************************************)
(* The command line, the local environment and the remote state a run      *)
(* starts from.                                                            *)
(***************************************************************************)
\* the section of ~/.aws/config get_aws_region reads for a profile
ConfigSection(aws_profile) ==
    IF Truthy(aws_profile) THEN <<"profile", aws_profile>> ELSE <<"default">>

\* what region resolution reads: -r, -p, AWS_DEFAULT_REGION (None: not in the
\* environment) and ~/.aws/config (present or not, its one section, that
\* section's region option or None when it has none)
RegionCase(r, p, e, present, section, option) ==
    [region |-> r, profile |-> p, env |-> e,
     config |-> [present |-> present, section |-> section, region |-> option]]

NoConfig == [present |-> FALSE, section |-> <<>>, region |-> None]

RegionCasesAll ==
    {RegionCase(r, p, e, TRUE, s, o) :
        r \in {None, "us-east-1"}, p \in {None, "dev"}, e \in {None, "", "eu-west-1"},
        s \in {<<>>, <<"default">>, <<"profile", "dev">>}, o \in {None, "", "ap-south-1"}}
    \cup {[region |-> r, profile |-> p, env |-> e, config |-> NoConfig] :
        r \in {None, "us-east-1"}, p \in {None, "dev"}, e \in {None, "", "eu-west-1"}}

\* the region given with -r
RegionCasesFew == {RegionCase("us-east-1", None, None, FALSE, <<>>, None)}

\* the flags of the command line other than region, images and timing
FlagCasesAll ==
    {[code_deploy |-> cd, app_name |-> a, group_name |-> g, update |-> u,
      taskName |-> d, copy |-> k, service |-> s, onlyIfModified |-> o] :
        cd \in BOOLEAN, a \in {None, "shop"}, g \in {None, "blue-green"},
        u \in BOOLEAN, d \in {None, "web:2"}, k \in {None, "api"},
        s \in {None, "web"}, o \in BOOLEAN}

\* the flag cases with -a/-g given only together with --code-deploy (they are
\* read nowhere else)
FlagCasesMain == {f \in FlagCasesAll :
    ~f.code_deploy => (f.app_name = None /\ f.group_name = None)}

\* the flag cases that pass the rules without -d: updates in place, asked for
\* or implied by -k
FlagCasesFew == {f \in FlagCasesMain :
    /\ f.taskName = None
    /\ f.update \/ f.copy # None
    /\ f.code_deploy => (f.app_name # None /\ f.group_name # None)}

\* the -i overrides: argparse gives None without -i, which the code only
\* tests for truthiness; the empty list stands for it
OverridePairs == OverrideNames \X ImageRefs
ImageListsAll == SeqsOf(OverridePairs, 0, MaxImages)
ImageListsFew == {<<>>, <<<<"app", "repo/app:2">>>>, <<<<"db", "repo/app:1">>>>,
                  <<<<"app", "repo/app:2">>, <<"app", "repo/app:1">>>>}

Timing(t, b) == [timeout |-> t, backoff |-> b]
TimingsAll == {Timing(t, b) : t \in 0..MaxTimeout, b \in 1..MaxBackoff}
TimingsFew == {Timing(0, 1)}

\* the remote state: the containers of the target service's task definition
\* and of the sibling service's
World(src, sib) == [source |-> src, sibling |-> sib]
WorldsAll == {World(src, sib) : src \in ContainerLists(MaxContainers),
                                sib \in {<<>>, <<ContainerDef("app", "repo/app:2", NoPortMappings)>>}}
WorldsFew ==
    {World(<<ContainerDef("app", "repo/app:1", PortMappings(<<80>>))>>,
           <<ContainerDef("app", "repo/app:2", NoPortMappings)>>),
     World(<<ContainerDef("app", "repo/app:1", PortMappings(<<80>>)), ContainerDef("db", "repo/app:1", PortMappings(<<80>>))>>,
           <<>>),
     World(<<ContainerDef("app", "repo/app:2", PortMappings(<<>>)), ContainerDef("db", "repo/app:1", NoPortMappings)>>,
           <<ContainerDef("app", "repo/app:2", NoPortMappings)>>),
     World(<<ContainerDef("app", "repo/app:1", NoPortMappings), ContainerDef("db", "repo/app:1", PortMappings(<<443, 80>>))>>,
           <<>>)}

VARIABLES
    args,              \* the parsed command line (args.update is assigned by main)
    environ,           \* AWS_DEFAULT_REGION and ~/.aws/config
    world,             \* the task definitions the remote holds
    pc,                \* where main() is
    region,            \* main's region
    implicit_update,   \* main printed "Implicitly enabling update"
    task_arn,          \* main's task_arn
    images,            \* main's images
    task,              \* main's task: the fetched task definition
    new_task_def,      \* main's new_task_def: the payload
    has_update,        \* main's has_update
    new_task_def_arn,  \* main's new_task_def_arn
    time_start,        \* wait_for_task's time_start
    now,               \* time.time()
    result,            \* wait_for_task's result (list_tasks)
    tasks,             \* wait_for_task's tasks (describe_tasks)
    wait_text,         \* wait_for_task's wait_text
    wait_result,       \* what wait_for_task returned: "True", "False", None before
    calls,             \* the remote calls made so far, in order
    registered,        \* the payloads passed to register_task_definition, in order
    deployments,       \* the revisions passed to create_deployment, in order
    exit_code,         \* the process exit code, -1 while running
    raised             \* the exception that ended the run, NoException if none

vars == <<args, environ, world, pc, region, implicit_update, task_arn, images, task,
          new_task_def, has_update, new_task_def_arn, time_start, now, result,
          tasks, wait_text, wait_result, calls, registered, deployments, exit_code, raised>>

\* locals of main
mainLocals == <<region, implicit_update, task_arn, images, task, new_task_def,
                has_update, new_task_def_arn>>
\* what the remote has been sent
remoteLog == <<calls, registered, deployments>>
\* locals of wait_for_task and the clock
waitLocals == <<time_start, now, result, tasks, wait_text, wait_result>>

NoException == [type |-> None, message |-> None]
NoTask == [family |-> None, volumes |-> <<>>, containerDefinitions |-> <<>>]
NoResult == [hasKey |-> FALSE, taskArns |-> <<>>]
NoTasks == [hasKey |-> FALSE, tasks |-> <<>>]

\* parse_arguments, and the state main() starts in
InitWith(RegionCases, FlagCases, ImageLists, Timings, Worlds) ==
    /\ \E rc \in RegionCases, f \in FlagCases, il \in ImageLists, tm \in Timings :
          /\ args = [region |-> rc.region, profile |-> rc.profile,
                     cluster |-> "default", service |-> f.service,
                     taskName |-> f.taskName, copy |-> f.copy, update |-> f.update,
                     image |-> il, timeout |-> tm.timeout, backoff |-> tm.backoff,
                     code_deploy |-> f.code_deploy, app_name |-> f.app_name,
                     group_name |-> f.group_name, onlyIfModified |-> f.onlyIfModified]
          /\ environ = [AWS_DEFAULT_REGION |-> rc.env, config |-> rc.config]
    /\ world \in Worlds
    /\ pc = "validate"
    /\ region = None
    /\ implicit_update = FALSE
    /\ task_arn = None
    /\ images = <<>>
    /\ task = NoTask
    /\ new_task_def = NoTask
    /\ has_update = FALSE
    /\ new_task_def_arn = None
    /\ time_start = 0
    /\ now = 0
    /\ result = NoResult
    /\ tasks = NoTasks
    /\ wait_text = None
    /\ wait_result = None
    /\ calls = <<>>
    /\ registered = <<>>
    /\ deployments = <<>>
    /\ exit_code = -1
    /\ raised = NoException

\* sys.exit(code)
Exit(code) ==
    /\ pc' = "done"
    /\ exit_code' = code
    /\ raised' = NoException

\* an exception nothing catches: the interpreter prints the traceback and the
\* process ends with status 1
Raise(exc) ==
    /\ pc' = "done"
    /\ exit_code' = 1
    /\ raised' = exc

\* the botocore ClientError of a remote call, with the message it carries
ClientError(message) == [type |-> "ClientError", message |-> message]

Goto(label) ==
    /\ pc' = label
    /\ UNCHANGED <<exit_code, raised>>

\* a remote call, as the log keeps it: the operation, the ARN or service it was
\* about, and the message of the ClientError it answered with (None: it returned)
Call(op, arg, error) == [op |-> op, arg |-> arg, error |-> error]
Called(op) == \E i \in 1..Len(calls) : calls[i].op = op
CountCalls(op) == Cardinality({i \in 1..Len(calls) : calls[i].op = op})


(***************************************************************************)
(* main(): validation, region, the rules.                                  *)
(***************************************************************************)
\* lines 148-152: --code-deploy needs -a and -g
CheckCodeDeployArgs ==
    /\ pc = "validate"
    /\ IF args.code_deploy /\ (~Truthy(args.app_name) \/ ~Truthy(args.group_name))
       THEN Exit(1)
       ELSE Goto("region")
    /\ UNCHANGED <<args, environ, world, mainLocals, waitLocals, remoteLog>>

\* get_aws_region: the region, or the configparser error it lets through
get_aws_region(aws_profile) ==
    LET config == environ.config IN
    IF environ.AWS_DEFAULT_REGION # None
    THEN [raised |-> NoException, region |-> environ.AWS_DEFAULT_REGION]
    ELSE IF ~config.present
    THEN [raised |-> NoException, region |-> None]
    ELSE IF config.section # ConfigSection(aws_profile)
    THEN [raised |-> [type |-> "NoSectionError", message |-> None], region |-> None]
    ELSE IF config.region = None
    THEN [raised |-> [type |-> "NoOptionError", message |-> None], region |-> None]
    ELSE [raised |-> NoException, region |-> config.region]

\* line 154
ResolvedRegion ==
    IF Truthy(args.region)
    THEN [raised |-> NoException, region |-> args.region]
    ELSE get_aws_region(args.profile)

\* lines 154-160
ResolveRegion ==
    /\ pc = "region"
    /\ LET r == ResolvedRegion IN
       IF r.raised # NoException
       THEN Raise(r.raised) /\ UNCHANGED region
       ELSE /\ region' = r.region
            /\ IF ~Truthy(r.region) THEN Exit(1) ELSE Goto("rules")
    /\ UNCHANGED <<args, environ, world, implicit_update, task_arn, images, task,
                   new_task_def, has_update, new_task_def_arn, waitLocals, remoteLog>>

\* args.taskName is None or a one-element list (nargs=1), which is truthy
\* whatever the name
HasTaskName == args.taskName # None

\* the rules without the test of -u together with -d
RulesVerdictLax ==
    IF Truthy(args.copy) /\ ~args.update THEN "implicit"
    ELSE IF ~args.update /\ ~HasTaskName /\ ~Truthy(args.copy) THEN "exit"
    ELSE "pass"

\* the rules without -k implying -u
RulesVerdictNoImplicit ==
    IF args.update /\ HasTaskName THEN "exit"
    ELSE IF ~args.update /\ ~HasTaskName /\ ~Truthy(args.copy) THEN "exit"
    ELSE "pass"

\* lines 163-172: what the rules decide: "exit", "implicit" or "pass"
RulesVerdict ==
    IF args.update /\ HasTaskName THEN "exit"
    ELSE IF Truthy(args.copy) /\ ~args.update THEN "implicit"
    ELSE IF ~args.update /\ ~HasTaskName /\ ~Truthy(args.copy) THEN "exit"
    ELSE "pass"

\* lines 162-176: the rules, then the boto3 session and client (no remote call)
Rules ==
    /\ pc = "rules"
    /\ CASE RulesVerdict = "exit" ->
              Exit(1) /\ UNCHANGED <<args, implicit_update>>
         [] RulesVerdict = "implicit" ->
              /\ args' = [args EXCEPT !.update = TRUE]
              /\ implicit_update' = TRUE
              /\ Goto("arn")
         [] OTHER ->
              Goto("arn") /\ UNCHANGED <<args, implicit_update>>
    /\ UNCHANGED <<environ, world, region, task_arn, images, task, new_task_def,
                   has_update, new_task_def_arn, waitLocals, remoteLog>>

(***************************************************************************)
(* The remote's answers.                                                   *)
(***************************************************************************)
\* describe_services: the service's task definition, no such service, or a
\* ClientError
DescribeServicesAnswers(arn) ==
    {[error |-> None, services |-> <<arn>>],
     [error |-> None, services |-> <<>>],
     [error |-> MsgClusterNotFound, services |-> <<>>],
     [error |-> MsgOther, services |-> <<>>]}

\* get_task_arn without the except IndexError of lines 59-61
get_task_arn_uncaught(answer) ==
    IF answer.error = None
    THEN IF Len(answer.services) > 0
         THEN [raised |-> NoException, task_arn |-> answer.services[1]]
         ELSE [raised |-> [type |-> "IndexError", message |-> None], task_arn |-> None]
    ELSE IF answer.error = MsgClusterNotFound
    THEN [raised |-> NoException, task_arn |-> None]
    ELSE [raised |-> ClientError(answer.error), task_arn |-> None]

\* get_task_arn, lines 54-67, on an answer of describe_services: the ARN or
\* None, or the ClientError it raises again
get_task_arn(answer) ==
    IF answer.error = None
    THEN IF Len(answer.services) > 0
         THEN [raised |-> NoException, task_arn |-> answer.services[1]]
         ELSE [raised |-> NoException, task_arn |-> None]
    ELSE IF answer.error = MsgClusterNotFound
    THEN [raised |-> NoException, task_arn |-> None]
    ELSE [raised |-> ClientError(answer.error), task_arn |-> None]

\* lines 178-183: the source task definition's ARN
ResolveTaskArn ==
    /\ pc = "arn"
    /\ IF args.update
       THEN \E answer \in DescribeServicesAnswers(SourceArn) :
              LET r == get_task_arn(answer) IN
              /\ calls' = Append(calls, Call("describe_services", args.service, answer.error))
              /\ IF r.raised # NoException
                 THEN Raise(r.raised) /\ UNCHANGED task_arn
                 ELSE /\ task_arn' = r.task_arn
                      /\ IF ~Truthy(r.task_arn) THEN Exit(1) ELSE Goto("images")
       ELSE /\ task_arn' = None
            /\ Exit(1)
            /\ UNCHANGED calls
    /\ UNCHANGED <<args, environ, world, region, implicit_update, images, task,
                   new_task_def, has_update, new_task_def_arn, waitLocals,
                   registered, deployments>>


\* describe_task_definition: the task definition, or a ClientError
DescribeTaskDefinitionAnswers(containers) ==
    {[error |-> None, taskDefinition |-> TaskDefinition(containers)],
     [error |-> MsgOther, taskDefinition |-> NoTask]}

\* the task definition the remote holds under an ARN
ContainersOf(arn) == IF arn = SiblingArn THEN world.sibling ELSE world.source

(***************************************************************************)
(* main(): the images to apply.                                            *)
(***************************************************************************)
\* line 185, without -k
TakeImages ==
    /\ pc = "images"
    /\ ~Truthy(args.copy)
    /\ images' = args.image
    /\ Goto("describe")
    /\ UNCHANGED <<args, environ, world, region, implicit_update, task_arn, task,
                   new_task_def, has_update, new_task_def_arn, waitLocals, remoteLog>>

\* lines 191-192: (name, image) of every container, in order
CopiedImages(containers) ==
    [k \in 1..Len(containers) |-> <<containers[k].name, containers[k].image>>]

\* lines 185-198, with -k: the sibling service's images
CopyImages ==
    /\ pc = "images"
    /\ Truthy(args.copy)
    /\ \E svc \in DescribeServicesAnswers(SiblingArn) :
         IF svc.error # None
         THEN /\ calls' = Append(calls, Call("describe_services", args.copy, svc.error))
              /\ Raise(ClientError(svc.error))
              /\ UNCHANGED images
         ELSE IF Len(svc.services) = 0
         THEN /\ calls' = Append(calls, Call("describe_services", args.copy, None))
              /\ Raise([type |-> "IndexError", message |-> None])
              /\ UNCHANGED images
         ELSE \E td \in DescribeTaskDefinitionAnswers(ContainersOf(svc.services[1])) :
              /\ calls' = calls \o <<Call("describe_services", args.copy, None),
                                     Call("describe_task_definition", svc.services[1], td.error)>>
              /\ IF td.error # None
                 THEN Raise(ClientError(td.error)) /\ images' = <<>>
                 ELSE /\ images' = CopiedImages(td.taskDefinition.containerDefinitions)
                      /\ IF Len(images') > 0 THEN Goto("describe") ELSE Exit(1)
    /\ UNCHANGED <<args, environ, world, region, implicit_update, task_arn, task,
                   new_task_def, has_update, new_task_def_arn, waitLocals,
                   registered, deployments>>

(***************************************************************************)
(* main(): the new task definition.                                        *)
(***************************************************************************)
\* lines 200-207: fetch the source and deep-copy it into the payload
DescribeTaskDefinition ==
    /\ pc = "describe"
    /\ \E td \in DescribeTaskDefinitionAnswers(ContainersOf(task_arn)) :
         /\ calls' = Append(calls, Call("describe_task_definition", task_arn, td.error))
         /\ IF td.error # None
            THEN Raise(ClientError(td.error)) /\ UNCHANGED <<task, new_task_def>>
            ELSE /\ task' = td.taskDefinition
                 /\ new_task_def' = [family |-> td.taskDefinition.family,
                                     volumes |-> td.taskDefinition.volumes,
                                     containerDefinitions |->
                                         td.taskDefinition.containerDefinitions]
                 /\ Goto("override")
    /\ UNCHANGED <<args, environ, world, region, implicit_update, task_arn, images,
                   has_update, new_task_def_arn, waitLocals, registered, deployments>>

\* lines 212-215: the containers an override names, as indexes, in order
Matching(containers, name) ==
    {k \in 1..Len(containers) : containers[k].name = name}

Min(S) == CHOOSE x \in S : \A y \in S : x <= y

\* the loop body without the comparison of the images
ApplyImageAlways(st, image) ==
    LET hit == Matching(st.containers, image[1]) IN
    IF hit # {}
    THEN [containers |-> [st.containers EXCEPT ![Min(hit)].image = image[2]],
          has_update |-> TRUE]
    ELSE st

\* the loop body taking the first container, whatever its name
ApplyImageFirst(st, image) ==
    IF Len(st.containers) > 0 /\ st.containers[1].image # image[2]
    THEN [containers |-> [st.containers EXCEPT ![1].image = image[2]],
          has_update |-> TRUE]
    ELSE st

\* lines 216-218: one pass of the loop body on [containers, has_update]
ApplyImage(st, image) ==
    LET hit == Matching(st.containers, image[1]) IN
    IF hit # {} /\ st.containers[Min(hit)].image # image[2]
    THEN [containers |-> [st.containers EXCEPT ![Min(hit)].image = image[2]],
          has_update |-> TRUE]
    ELSE st

\* lines 209-218: the loop over images
RECURSIVE ApplyImages(_, _)
ApplyImages(st, imgs) ==
    IF Len(imgs) = 0 THEN st
    ELSE ApplyImages(ApplyImage(st, Head(imgs)), Tail(imgs))

\* lines 209-218 on a payload that shares its containers with the fetched record
ApplyOverridesShared ==
    /\ pc = "override"
    /\ LET st == ApplyImages([containers |-> new_task_def.containerDefinitions,
                              has_update |-> FALSE], images) IN
       /\ has_update' = st.has_update
       /\ new_task_def' = [new_task_def EXCEPT !.containerDefinitions = st.containers]
       /\ task' = [task EXCEPT !.containerDefinitions = st.containers]
    /\ Goto("register")
    /\ UNCHANGED <<args, environ, world, region, implicit_update, task_arn, images,
                   new_task_def_arn, waitLocals, remoteLog>>

\* lines 209-218
ApplyOverrides ==
    /\ pc = "override"
    /\ LET st == ApplyImages([containers |-> new_task_def.containerDefinitions,
                              has_update |-> FALSE], images) IN
       /\ has_update' = st.has_update
       /\ new_task_def' = [new_task_def EXCEPT !.containerDefinitions = st.containers]
    /\ Goto("register")
    /\ UNCHANGED <<args, environ, world, region, implicit_update, task_arn, images,
                   task, new_task_def_arn, waitLocals, remoteLog>>

\* line 220 without the test of -O
UnmodifiedAnyFlag == ~has_update

\* line 220
Unmodified == args.onlyIfModified /\ ~has_update

\* lines 220-222: nothing changed and -O given
OnlyIfModifiedAbort ==
    /\ pc = "register"
    /\ Unmodified
    /\ Exit(0)
    /\ UNCHANGED <<args, environ, world, mainLocals, waitLocals, remoteLog>>

\* register_task_definition: the new ARN, or a ClientError
RegisterAnswers == {[error |-> None, taskDefinitionArn |-> NewArn],
                    [error |-> MsgOther, taskDefinitionArn |-> None]}

\* lines 224-226
Register ==
    /\ pc = "register"
    /\ ~Unmodified
    /\ \E answer \in RegisterAnswers :
         /\ calls' = Append(calls, Call("register_task_definition", new_task_def.family, answer.error))
         /\ registered' = Append(registered, new_task_def)
         /\ IF answer.error # None
            THEN Raise(ClientError(answer.error)) /\ UNCHANGED new_task_def_arn
            ELSE /\ new_task_def_arn' = answer.taskDefinitionArn
                 /\ Goto("deploy")
    /\ UNCHANGED <<args, environ, world, region, implicit_update, task_arn, images,
                   task, new_task_def, has_update, waitLocals, deployments>>


(***************************************************************************)
(* main(): the service update or the blue/green hand-off.                  *)
(***************************************************************************)
\* lines 229-231: no service to update
NoServiceExit ==
    /\ pc = "deploy"
    /\ ~Truthy(args.service)
    /\ Exit(0)
    /\ UNCHANGED <<args, environ, world, mainLocals, waitLocals, remoteLog>>

\* lines 106-112: the containers whose portMappings[0]['containerPort'] exists
\* (a missing key or an empty list is skipped), as indexes
PortMapped(container_defs) ==
    {k \in 1..Len(container_defs) :
        /\ container_defs[k].portMappings.present
        /\ Len(container_defs[k].portMappings.ports) > 0}

\* get_codedeploy_data without the test for more than one port-mapped container
get_codedeploy_data_first(container_defs) ==
    LET found == PortMapped(container_defs) IN
    IF found = {} THEN [exit |-> TRUE, name |-> None, port |-> 0]
    ELSE [exit |-> FALSE,
          name |-> container_defs[Min(found)].name,
          port |-> container_defs[Min(found)].portMappings.ports[1]]

\* get_codedeploy_data taking the name of the first container of the list
get_codedeploy_data_head(container_defs) ==
    LET found == PortMapped(container_defs) IN
    IF Cardinality(found) > 1 THEN [exit |-> TRUE, name |-> None, port |-> 0]
    ELSE IF found = {} THEN [exit |-> TRUE, name |-> None, port |-> 0]
    ELSE [exit |-> FALSE,
          name |-> container_defs[1].name,
          port |-> container_defs[Min(found)].portMappings.ports[1]]

\* get_codedeploy_data, lines 103-122: exit 1, or the first collected name and port
get_codedeploy_data(container_defs) ==
    LET found == PortMapped(container_defs) IN
    IF Cardinality(found) > 1 THEN [exit |-> TRUE, name |-> None, port |-> 0]
    ELSE IF found = {} THEN [exit |-> TRUE, name |-> None, port |-> 0]
    ELSE [exit |-> FALSE,
          name |-> container_defs[Min(found)].name,
          port |-> container_defs[Min(found)].portMappings.ports[1]]

\* get_app_spec_content, lines 125-142: the document, before json.dumps
get_app_spec_content(task_definition, container_name, container_port) ==
    [TaskDefinition |-> task_definition,
     ContainerName |-> container_name,
     ContainerPort |-> container_port]

\* create_deployment and update_service: done, or a ClientError
MutationAnswers == {None, MsgOther}

\* lines 233-254: the blue/green hand-off, from the fetched task definition
CodeDeploy ==
    /\ pc = "deploy"
    /\ Truthy(args.service)
    /\ args.code_deploy
    /\ LET data == get_codedeploy_data(task.containerDefinitions) IN
       IF data.exit
       THEN Exit(1) /\ UNCHANGED <<calls, deployments>>
       ELSE \E error \in MutationAnswers :
            /\ calls' = Append(calls, Call("create_deployment", new_task_def_arn, error))
            /\ deployments' = Append(deployments,
                   [applicationName |-> args.app_name,
                    deploymentGroupName |-> args.group_name,
                    content |-> get_app_spec_content(new_task_def_arn, data.name, data.port)])
            /\ IF error # None THEN Raise(ClientError(error)) ELSE Goto("wait")
    /\ UNCHANGED <<args, environ, world, mainLocals, waitLocals, registered>>

\* lines 255-259
UpdateService ==
    /\ pc = "deploy"
    /\ Truthy(args.service)
    /\ ~args.code_deploy
    /\ \E error \in MutationAnswers :
         /\ calls' = Append(calls, Call("update_service", new_task_def_arn, error))
         /\ IF error # None THEN Raise(ClientError(error)) ELSE Goto("wait")
    /\ UNCHANGED <<args, environ, world, mainLocals, waitLocals, registered, deployments>>

(***************************************************************************)
(* wait_for_task.                                                          *)
(***************************************************************************)
TaskArns == <<"task/1", "task/2", "task/3">>

\* list_tasks: a ClientError, a result without taskArns (or a falsy one), or
\* the running tasks' ARNs
ListTasksAnswers ==
    {[error |-> e, hasKey |-> FALSE, taskArns |-> <<>>] : e \in {MsgTasksEmpty, MsgOther}}
    \cup {[error |-> None, hasKey |-> FALSE, taskArns |-> <<>>]}
    \cup {[error |-> None, hasKey |-> TRUE, taskArns |-> SubSeq(TaskArns, 1, n)] :
             n \in 0..MaxTasks}

\* describe_tasks on some task ARNs: a ClientError, a result without tasks, or
\* the tasks found among them, each with its taskDefinitionArn
DescribeTasksAnswers(task_arns) ==
    {[error |-> e, hasKey |-> FALSE, tasks |-> <<>>] : e \in {MsgTasksEmpty, MsgOther}}
    \cup {[error |-> None, hasKey |-> FALSE, tasks |-> <<>>]}
    \cup {[error |-> None, hasKey |-> TRUE, tasks |-> t] :
             t \in SeqsOf({[taskDefinitionArn |-> a] : a \in {SourceArn, NewArn}},
                          0, Len(task_arns))}

\* lines 84-88 comparing with the ARN of the source task definition
HasUpdatedSource(ts, arn) == \E k \in 1..Len(ts) : ts[k].taskDefinitionArn = task_arn

\* lines 84-88: some task runs the new task definition
HasUpdated(ts, arn) == \E k \in 1..Len(ts) : ts[k].taskDefinitionArn = arn

\* the test of line 97 with >= for >
TimedOutInclusive == now - time_start >= args.timeout

\* line 97 allowing one interval more than the timeout
TimedOutLate == now - time_start > args.timeout + args.backoff

\* line 97
TimedOut == now - time_start > args.timeout

\* line 71
WaitStart ==
    /\ pc = "wait"
    /\ time_start' = now
    /\ Goto("sleep")
    /\ UNCHANGED <<args, environ, world, mainLocals, now, result, tasks, wait_text,
                   wait_result, remoteLog>>

\* line 73: the sleep, and the time the rest of the iteration takes
Sleep ==
    /\ pc = "sleep"
    /\ \E lag \in 0..MaxLag : now' = now + args.backoff + lag
    /\ Goto("list")
    /\ UNCHANGED <<args, environ, world, mainLocals, time_start, result, tasks,
                   wait_text, wait_result, remoteLog>>

\* lines 75-79
ListTasks ==
    /\ pc = "list"
    /\ \E answer \in ListTasksAnswers :
         /\ calls' = Append(calls, Call("list_tasks", args.service, answer.error))
         /\ IF answer.error # None
            THEN Raise(ClientError(answer.error)) /\ UNCHANGED <<result, wait_text>>
            ELSE /\ result' = [hasKey |-> answer.hasKey, taskArns |-> answer.taskArns]
                 /\ wait_text' = "New task is not running yet"
                 /\ IF answer.hasKey THEN Goto("describe_tasks") ELSE Goto("elapsed")
    /\ UNCHANGED <<args, environ, world, mainLocals, time_start, now, tasks,
                   wait_result, registered, deployments>>

\* lines 90-95 without the except clause
OnDescribeTasksErrorRaise(message) == "raise"

\* lines 90-95 swallowing every ClientError
OnDescribeTasksErrorSwallow(message) == "swallow"

\* what lines 90-95 do with a ClientError of describe_tasks: "swallow" or "raise"
OnDescribeTasksError(message) ==
    IF message = MsgTasksEmpty THEN "swallow" ELSE "raise"

\* lines 80-95
DescribeTasks ==
    /\ pc = "describe_tasks"
    /\ \E answer \in DescribeTasksAnswers(result.taskArns) :
         /\ calls' = Append(calls, Call("describe_tasks", args.service, answer.error))
         /\ IF answer.error # None
            THEN IF OnDescribeTasksError(answer.error) = "swallow"
                 THEN /\ wait_text' = "No tasks are currently running"
                      /\ Goto("elapsed")
                      /\ UNCHANGED <<tasks, wait_result>>
                 ELSE Raise(ClientError(answer.error)) /\ UNCHANGED <<tasks, wait_text, wait_result>>
            ELSE /\ tasks' = [hasKey |-> answer.hasKey, tasks |-> answer.tasks]
                 /\ UNCHANGED wait_text
                 /\ IF answer.hasKey /\ HasUpdated(answer.tasks, new_task_def_arn)
                    THEN wait_result' = "True" /\ Goto("finish")
                    ELSE UNCHANGED wait_result /\ Goto("elapsed")
    /\ UNCHANGED <<args, environ, world, mainLocals, time_start, now, result,
                   registered, deployments>>

\* lines 97-100
CheckElapsed ==
    /\ pc = "elapsed"
    /\ IF TimedOut
       THEN wait_result' = "False" /\ Goto("finish")
       ELSE UNCHANGED wait_result /\ Goto("sleep")
    /\ UNCHANGED <<args, environ, world, mainLocals, time_start, now, result, tasks,
                   wait_text, remoteLog>>

\* lines 262-269 with exit code 0 whatever wait_for_task returned
FinishZero ==
    /\ pc = "finish"
    /\ Exit(0)
    /\ UNCHANGED <<args, environ, world, mainLocals, waitLocals, remoteLog>>

\* lines 262-269
Finish ==
    /\ pc = "finish"
    /\ IF wait_result = "True" THEN Exit(0) ELSE Exit(1)
    /\ UNCHANGED <<args, environ, world, mainLocals, waitLocals, remoteLog>>

(***************************************************************************)
(* The run.                                                                *)
(***************************************************************************)
Next ==
    \/ CheckCodeDeployArgs
    \/ ResolveRegion
    \/ Rules
    \/ ResolveTaskArn
    \/ TakeImages
    \/ CopyImages
    \/ DescribeTaskDefinition
    \/ ApplyOverrides
    \/ OnlyIfModifiedAbort
    \/ Register
    \/ NoServiceExit
    \/ CodeDeploy
    \/ UpdateService
    \/ WaitStart
    \/ Sleep
    \/ ListTasks
    \/ DescribeTasks
    \/ CheckElapsed
    \/ Finish

\* every region and flag case
Init == InitWith(RegionCasesAll, FlagCasesMain, ImageListsFew, TimingsFew, WorldsFew)
Spec == Init /\ [][Next]_vars

\* the flag cases that end at the registration: no service to update
FlagCasesNoService == {f \in FlagCasesFew : f.service = None /\ ~f.code_deploy}

\* every override list against every task definition in the runs that end at
\* the registration, and the few lists and task definitions in full runs
InitMutate ==
    \/ InitWith(RegionCasesFew, FlagCasesNoService, ImageListsAll, TimingsFew, WorldsAll)
    \/ InitWith(RegionCasesFew, FlagCasesFew, ImageListsFew, TimingsFew, WorldsFew)
SpecMutate == InitMutate /\ [][Next]_vars

\* one plain service update
FlagCasesUpdate == {f \in FlagCasesFew :
    f.update /\ f.copy = None /\ f.service # None /\ ~f.code_deploy /\ ~f.onlyIfModified}

\* every timeout and poll interval in a plain service update, and the other
\* runs with the shortest timing
InitWait ==
    \/ InitWith(RegionCasesFew, FlagCasesUpdate, {<<<<"app", "repo/app:2">>>>}, TimingsAll,
                {World(<<ContainerDef("app", "repo/app:1", PortMappings(<<80>>))>>, <<>>)})
    \/ InitWith(RegionCasesFew, FlagCasesFew, ImageListsFew, TimingsFew, WorldsFew)
SpecWait == InitWait /\ [][Next]_vars

\* the same runs, never stopping short: main is one thread that executes
\* statement after statement until sys.exit or an exception ends it
SpecWaitFair == InitWait /\ [][Next]_vars /\ WF_vars(Next)


(***************************************************************************)
(* Properties.                                                             *)
(***************************************************************************)
\* the source task definition as the remote holds it
SourceTask == TaskDefinition(world.source)

\* the source task definition has been fetched
Fetched == task # NoTask

\* the last remote call made
LastCall == calls[Len(calls)]

\* seconds since wait_for_task took time_start
Elapsed == now - time_start

\* the last describe_tasks answer reported a task running the new ARN
Matched ==
    /\ tasks.hasKey
    /\ \E k \in 1..Len(tasks.tasks) : tasks.tasks[k].taskDefinitionArn = new_task_def_arn

\* every override names no container of the source or one that already has
\* the override's image
NoOpOverrides ==
    \A k \in 1..Len(images) : \A c \in 1..Len(world.source) :
        world.source[c].name = images[k][1] => world.source[c].image = images[k][2]

\* C1: with -O, once the source is fetched and every override names no
\* container of it or one that already has the override's image (or there is
\* no override), register_task_definition, update_service and
\* create_deployment are never called, the run goes no further than the
\* only-if-modified test, and it exits with code 0.
C1_NoOpExitsZero ==
    (args.onlyIfModified /\ Fetched /\ NoOpOverrides) =>
        /\ ~Called("register_task_definition")
        /\ ~Called("update_service")
        /\ ~Called("create_deployment")
        /\ pc \in {"override", "register", "done"}
        /\ pc = "done" => (exit_code = 0 /\ raised = NoException)

\* a no-op run on a service that ended: an override names a container that
\* already has its image
C1_Witness ==
    /\ args.onlyIfModified /\ Fetched /\ NoOpOverrides
    /\ Truthy(args.service)
    /\ pc = "done" /\ exit_code = 0
    /\ \E k \in 1..Len(images) : \E c \in 1..Len(world.source) :
          world.source[c].name = images[k][1]

\* C2: every payload passed to register_task_definition has the source's
\* family, volumes and containers in the source's order; each container keeps
\* its name and port mappings, and its image differs from the source's only if
\* some override has exactly its name.
C2_PayloadPreserved ==
    \A i \in 1..Len(registered) :
        LET payload == registered[i].containerDefinitions
            source == SourceTask.containerDefinitions IN
        /\ registered[i].family = SourceTask.family
        /\ registered[i].volumes = SourceTask.volumes
        /\ Len(payload) = Len(source)
        /\ \A k \in 1..Len(source) :
              /\ payload[k].name = source[k].name
              /\ payload[k].portMappings = source[k].portMappings
              /\ payload[k] # source[k] =>
                    \E j \in 1..Len(images) : images[j][1] = source[k].name

\* a registered payload with the first container's image changed and the
\* second container, named by an override too, as it was
C2_Witness ==
    /\ Len(registered) = 1
    /\ Len(world.source) = 2
    /\ registered[1].containerDefinitions[1].image # world.source[1].image
    /\ registered[1].containerDefinitions[2] = world.source[2]
    /\ \E j \in 1..Len(images) : images[j][1] = world.source[2].name

\* C3: wait_for_task returns True only from an iteration whose describe_tasks
\* reported a task with the target ARN and never goes on after one; it returns
\* False only from an iteration without a match that ended with more than the
\* timeout elapsed, and never starts another iteration after such an iteration.
C3_WaiterResult ==
    /\ wait_result = "True" => Matched
    /\ wait_result = "False" => (~Matched /\ Elapsed > args.timeout)
    /\ pc \in {"sleep", "list", "describe_tasks", "elapsed"} =>
          (~Matched /\ wait_result = None)
    /\ (pc = "sleep" /\ Called("list_tasks")) => Elapsed <= args.timeout
    /\ pc = "finish" => wait_result \in {"True", "False"}

\* True from the second iteration or a later one
C3_Witness ==
    /\ wait_result = "True"
    /\ CountCalls("list_tasks") >= 2
    /\ Elapsed > args.timeout

\* C4 (as claimed): a run with -d, without -u and -k, whose region resolved
\* describes the named task definition.
C4_ExplicitNameUsed ==
    (pc = "done" /\ Truthy(region) /\ HasTaskName /\ ~args.update /\ ~Truthy(args.copy)) =>
        \E i \in 1..Len(calls) :
            calls[i].op = "describe_task_definition" /\ calls[i].arg = args.taskName

\* some container of the payload has another image than in the source
PayloadDiffers(payload) ==
    \E k \in 1..Len(world.source) :
        payload.containerDefinitions[k].image # world.source[k].image

\* C5 (as claimed): with -O, every registered payload differs from the source
\* in the image of some container (stated for the runs that name a service).
C5_RegisteredMeansChanged ==
    (args.onlyIfModified /\ Truthy(args.service)) => \A i \in 1..Len(registered) : PayloadDiffers(registered[i])

\* the command line is a usage error: -u with -d, none of -u, -d and -k, or
\* --code-deploy without -a and -g
UsageError ==
    \/ args.update /\ ~implicit_update /\ HasTaskName
    \/ ~args.update /\ ~HasTaskName /\ ~Truthy(args.copy)
    \/ args.code_deploy /\ (~Truthy(args.app_name) \/ ~Truthy(args.group_name))

\* C6: a run whose command line is a usage error never gets past the rules,
\* makes no remote call and ends with exit code 1.
C6_UsageErrorExits ==
    UsageError =>
        /\ pc \in {"validate", "region", "rules", "done"}
        /\ calls = <<>> /\ registered = <<>> /\ deployments = <<>>
        /\ pc = "done" => exit_code = 1

\* -u with -d, refused by the rules after the region resolved
C6_Witness ==
    /\ args.update /\ ~implicit_update /\ HasTaskName
    /\ ~args.code_deploy
    /\ Truthy(region)
    /\ pc = "done" /\ exit_code = 1 /\ raised = NoException /\ calls = <<>>

\* C7: a run with -k and without -u that reaches the rules passes them with
\* update switched on, and its first remote call is the describe_services
\* lookup of the target service, which gives task_arn.
C7_CopyImpliesUpdate ==
    (Truthy(args.copy) /\ (implicit_update \/ ~args.update) /\ Truthy(region)
        /\ pc # "rules") =>
        /\ args.update /\ implicit_update
        /\ pc # "arn" =>
              /\ calls # <<>>
              /\ calls[1] = Call("describe_services", args.service, calls[1].error)
              /\ Truthy(task_arn) => task_arn = SourceArn

\* -k without -u got the source ARN from the target service
C7_Witness ==
    /\ Truthy(args.copy) /\ implicit_update
    /\ task_arn = SourceArn
    /\ calls[1].op = "describe_services" /\ calls[1].arg = args.service

\* list_tasks answered with an empty list of task ARNs
EmptyList ==
    /\ calls # <<>> /\ LastCall.op = "list_tasks" /\ LastCall.error = None
    /\ result.hasKey /\ result.taskArns = <<>>

\* describe_tasks answered with no tasks, or with the "no tasks" error
EmptyDescribe ==
    /\ calls # <<>> /\ LastCall.op = "describe_tasks"
    /\ \/ LastCall.error = MsgTasksEmpty
       \/ LastCall.error = None /\ (~tasks.hasKey \/ tasks.tasks = <<>>)

\* describe_tasks answered with running tasks, none of them on the new ARN
UnmatchedDescribe ==
    /\ calls # <<>> /\ LastCall.op = "describe_tasks" /\ LastCall.error = None
    /\ tasks.hasKey /\ tasks.tasks # <<>> /\ ~Matched

\* how an iteration without a match ends: nothing raised, no True; the loop
\* goes on unless more than the timeout has elapsed, and then returns False
EndsUnmatched ==
    /\ raised = NoException
    /\ wait_result # "True"
    /\ pc \in {"elapsed", "sleep", "list", "finish", "done"}
    /\ pc \in {"sleep", "list"} => wait_result = None
    /\ pc = "sleep" => Elapsed <= args.timeout
    /\ pc \in {"finish", "done"} => (wait_result = "False" /\ Elapsed > args.timeout)
    /\ pc = "done" => exit_code = 1

\* C8: an iteration that finds no running tasks (an empty taskArns list, no
\* tasks from describe_tasks, or its "no tasks" error) does not return or raise
\* by itself: it ends as an iteration that saw only tasks on other ARNs does.
C8_EmptyPollContinues ==
    /\ EmptyList => (pc = "describe_tasks" /\ raised = NoException /\ wait_result = None)
    /\ EmptyDescribe => EndsUnmatched
    /\ UnmatchedDescribe => EndsUnmatched

\* the loop went on after describe_tasks raised "Tasks cannot be empty."
C8_Witness ==
    /\ EmptyDescribe /\ LastCall.error = MsgTasksEmpty
    /\ result.taskArns = <<>>
    /\ pc = "sleep"

\* the last remote call is one of the poll's
Polling == calls # <<>> /\ LastCall.op \in {"list_tasks", "describe_tasks"}

\* C9 (as claimed): a "Tasks cannot be empty." error of list_tasks or of
\* describe_tasks is not propagated; every other error of either is.
C9_NoTasksErrorSwallowed ==
    Polling =>
        /\ LastCall.error = MsgTasksEmpty => raised = NoException
        /\ LastCall.error = MsgOther => raised = ClientError(MsgOther)

\* C9 (amended): a "Tasks cannot be empty." error of describe_tasks is not
\* propagated and the iteration ends without a match; every other error of
\* describe_tasks and every error of list_tasks, that one included, is
\* propagated as it is.
C9_Amended ==
    Polling =>
        /\ (LastCall.op = "describe_tasks" /\ LastCall.error = MsgTasksEmpty) =>
              EndsUnmatched
        /\ (LastCall.op = "describe_tasks" /\ LastCall.error = MsgOther) =>
              (pc = "done" /\ raised = ClientError(MsgOther))
        /\ (LastCall.op = "list_tasks" /\ LastCall.error # None) =>
              (pc = "done" /\ raised = ClientError(LastCall.error))

\* describe_tasks raised "Tasks cannot be empty." for running tasks and the
\* iteration went on to the timeout test
C9_Witness ==
    /\ Polling /\ LastCall.op = "describe_tasks" /\ LastCall.error = MsgTasksEmpty
    /\ pc = "elapsed" /\ wait_text = "No tasks are currently running"

\* the fetched task definition has no port-mapped container, or two or more
BadTopology ==
    Cardinality({k \in 1..Len(world.source) :
        world.source[k].portMappings.present
        /\ world.source[k].portMappings.ports # <<>>}) # 1

\* C10 (as claimed): a blue/green run on a task definition with no or several
\* port-mapped containers exits with code 1 and never calls create_deployment
\* or update_service, nor polls (stated for the runs that name a service).
C10_BadTopologyExitsOne ==
    (args.code_deploy /\ Truthy(args.service) /\ Fetched /\ BadTopology) =>
        /\ pc = "done" => exit_code = 1
        /\ ~Called("create_deployment")
        /\ ~Called("update_service")
        /\ ~Called("list_tasks")

\* C10 (amended): such a run never calls create_deployment or update_service,
\* nor polls, and it exits with code 1 unless it ended before the hand-off with
\* code 0: nothing to register under -O, or no service name.
C10_Amended ==
    (args.code_deploy /\ Fetched /\ BadTopology) =>
        /\ ~Called("create_deployment")
        /\ ~Called("update_service")
        /\ ~Called("list_tasks")
        /\ pc \notin {"wait", "sleep", "list", "describe_tasks", "elapsed", "finish"}
        /\ pc = "done" =>
              \/ exit_code = 1
              \/ exit_code = 0 /\ registered = <<>> /\ args.onlyIfModified /\ ~has_update
              \/ exit_code = 0 /\ ~Truthy(args.service)

\* the hand-off refused a registered task definition with two port-mapped containers
C10_Witness ==
    /\ args.code_deploy /\ Fetched
    /\ Cardinality({k \in 1..Len(world.source) :
          world.source[k].portMappings.present
          /\ world.source[k].portMappings.ports # <<>>}) >= 2
    /\ Truthy(args.service) /\ Called("register_task_definition")
    /\ new_task_def_arn = NewArn
    /\ pc = "done" /\ exit_code = 1 /\ raised = NoException

\* the run ended in get_codedeploy_data's exit: a registered task definition,
\* a service, blue/green mode, and no hand-off or service update made
TopologyExit ==
    /\ args.code_deploy /\ Truthy(args.service) /\ BadTopology
    /\ pc = "done" /\ exit_code = 1 /\ raised = NoException
    /\ Fetched /\ ~(args.onlyIfModified /\ ~has_update)
    /\ ~Called("list_tasks")
    /\ \A i \in 1..Len(calls) : calls[i].error = None

\* C11 (as claimed): when a blue/green run exits with code 1 because the task
\* definition has no or several port-mapped containers, none of
\* register_task_definition, update_service and create_deployment has been called.
C11_TopologyErrorBeforeMutation ==
    TopologyExit =>
        /\ ~Called("register_task_definition")
        /\ ~Called("update_service")
        /\ ~Called("create_deployment")

\* the rank of a remote operation in a direct update
CallRank(op) ==
    CASE op = "describe_services" -> 1
      [] op = "describe_task_definition" -> 2
      [] op = "register_task_definition" -> 3
      [] op = "update_service" -> 4
      [] OTHER -> 5

\* C12: in a direct (not blue/green) update of a named service the remote
\* calls come in the order describe_services, describe_task_definition,
\* register_task_definition, update_service, polling, the first being the
\* lookup of the service; register_task_definition and update_service are
\* called at most once, update_service after a registration that returned and
\* with the ARN it returned, and a True from the waiter rests on a task with
\* that ARN.
C12_DirectUpdateOrder ==
    (args.update /\ ~args.code_deploy /\ Truthy(args.service)) =>
        /\ \A i, j \in 1..Len(calls) :
              i < j => CallRank(calls[i].op) <= CallRank(calls[j].op)
        /\ calls # <<>> => calls[1] = Call("describe_services", args.service, calls[1].error)
        /\ CountCalls("register_task_definition") <= 1
        /\ CountCalls("update_service") <= 1
        /\ \A j \in 1..Len(calls) :
              calls[j].op = "update_service" =>
                 /\ j > 1
                 /\ calls[j - 1] = Call("register_task_definition", SourceTask.family, None)
                 /\ calls[j].arg = NewArn
                 /\ new_task_def_arn = NewArn
        /\ Called("list_tasks") =>
              \E j \in 1..Len(calls) : calls[j] = Call("update_service", NewArn, None)
        /\ wait_result = "True" =>
              \E k \in 1..Len(tasks.tasks) : tasks.tasks[k].taskDefinitionArn = NewArn

\* a direct update that registered, updated the service, polled twice and
\* saw the new ARN running
C12_Witness ==
    /\ args.update /\ ~args.code_deploy /\ Truthy(args.service)
    /\ pc = "done" /\ exit_code = 0 /\ wait_result = "True"
    /\ CountCalls("list_tasks") >= 1
    /\ Called("update_service")

\* the run has ended by sys.exit, not by an exception
Exited == pc = "done" /\ raised = NoException

\* C13: a run that ends by sys.exit ends with code 0 or 1; code 0 only for
\* the -O no-op, for a registration without a service name, or for a True
\* from wait_for_task; a usage error, an unresolved region, an unresolved task
\* ARN, an empty list of copied images, a bad port-mapping topology at the
\* hand-off and a False from wait_for_task each end with code 1.
C13_ExitCodes ==
    Exited =>
        /\ exit_code \in {0, 1}
        /\ exit_code = 0 =>
              \/ /\ args.onlyIfModified /\ ~has_update
                 /\ Fetched /\ ~Called("register_task_definition")
              \/ /\ ~Truthy(args.service)
                 /\ LastCall = Call("register_task_definition", SourceTask.family, None)
                 /\ new_task_def_arn = NewArn
              \/ /\ wait_result = "True"
                 /\ LastCall.op = "describe_tasks" /\ LastCall.error = None
        /\ UsageError => exit_code = 1
        /\ ~Truthy(region) => exit_code = 1
        /\ ~Truthy(task_arn) => exit_code = 1
        /\ (Truthy(args.copy) /\ Truthy(task_arn) /\ images = <<>> /\ ~Fetched) => exit_code = 1
        /\ (args.code_deploy /\ Truthy(args.service) /\ BadTopology /\ registered # <<>>) =>
              exit_code = 1
        /\ wait_result = "False" => exit_code = 1

\* the rollout timed out: wait_for_task returned False and main exited 1
C13_Witness ==
    /\ Exited /\ exit_code = 1
    /\ wait_result = "False"
    /\ Called("update_service") /\ Called("list_tasks")

\* describe_services answered the lookup of the target service without an
\* error and with no service
ServiceNotFound ==
    /\ calls # <<>>
    /\ calls[1] = Call("describe_services", args.service, None)
    /\ pc # "arn"
    /\ ~Truthy(task_arn)

\* C14: when describe_services returns no service for the target,
\* get_task_arn gives None without raising and the run exits with code 1
\* having made no other remote call.
C14_ServiceNotFoundExits ==
    ServiceNotFound =>
        /\ Exited /\ exit_code = 1
        /\ Len(calls) = 1
        /\ registered = <<>> /\ deployments = <<>>
        /\ \A op \in {"describe_task_definition", "register_task_definition",
                      "update_service", "create_deployment", "list_tasks"} : ~Called(op)

\* the lookup of a named service found nothing and the run exited 1
C14_Witness ==
    /\ ServiceNotFound /\ Truthy(args.service)
    /\ Exited /\ exit_code = 1 /\ Len(calls) = 1

\* the first non-empty region among -r, AWS_DEFAULT_REGION and the region
\* option of the profile's section of ~/.aws/config; None when there is none
ExpectedRegion ==
    LET config == environ.config IN
    IF Truthy(args.region) THEN args.region
    ELSE IF Truthy(environ.AWS_DEFAULT_REGION) THEN environ.AWS_DEFAULT_REGION
    ELSE IF config.present /\ config.section = ConfigSection(args.profile)
            /\ Truthy(config.region)
    THEN config.region
    ELSE None

\* the run got past the --code-deploy validation and region resolution is over
RegionSettled ==
    /\ pc \notin {"validate", "region"}
    /\ ~(args.code_deploy /\ (~Truthy(args.app_name) \/ ~Truthy(args.group_name)))

\* C15 (as claimed): the region is the first non-empty one among -r,
\* AWS_DEFAULT_REGION and the config file section of the profile; when
\* there is none the run ends with a non-zero exit code and no remote call.
C15_RegionPrecedence ==
    RegionSettled =>
        IF Truthy(ExpectedRegion)
        THEN region = ExpectedRegion
        ELSE pc = "done" /\ exit_code # 0 /\ calls = <<>>

\* main is inside wait_for_task or past it
Waiting == pc \in {"wait", "sleep", "list", "describe_tasks", "elapsed", "finish"} \/ wait_result # None

\* C16: a blue/green run on a task definition with exactly one port-mapped
\* container never calls update_service; it calls create_deployment at most
\* once, and exactly once before it polls, right after the registration
\* returned, for the registered ARN and with the name and first port of the
\* port-mapped container of the fetched task definition; polling follows a
\* create_deployment that returned.
C16_BlueGreenHandOff ==
    (args.code_deploy /\ Fetched /\ ~BadTopology) =>
        /\ ~Called("update_service")
        /\ CountCalls("create_deployment") <= 1
        /\ Len(deployments) = CountCalls("create_deployment")
        /\ Waiting => CountCalls("create_deployment") = 1
        /\ \A j \in 1..Len(calls) :
              calls[j].op = "create_deployment" =>
                 /\ j > 1
                 /\ calls[j - 1] = Call("register_task_definition", SourceTask.family, None)
                 /\ calls[j].arg = NewArn
                 /\ deployments[1].applicationName = args.app_name
                 /\ deployments[1].deploymentGroupName = args.group_name
                 /\ deployments[1].content.TaskDefinition = NewArn
                 /\ \E k \in 1..Len(world.source) :
                       /\ world.source[k].portMappings.present
                       /\ world.source[k].portMappings.ports # <<>>
                       /\ deployments[1].content.ContainerName = world.source[k].name
                       /\ deployments[1].content.ContainerPort = world.source[k].portMappings.ports[1]
                 /\ \A i \in 1..j : calls[i].op \notin {"list_tasks", "describe_tasks"}
        /\ Called("list_tasks") =>
              \E j \in 1..Len(calls) : calls[j] = Call("create_deployment", NewArn, None)

\* a blue/green run whose port-mapped container is the second of the list
\* handed off, polled and saw the new task definition running
C16_Witness ==
    /\ args.code_deploy /\ Fetched /\ ~BadTopology
    /\ Len(world.source) = 2 /\ ~world.source[1].portMappings.present
    /\ deployments # <<>> /\ deployments[1].content.ContainerName = "db"
    /\ deployments[1].content.ContainerPort = 443
    /\ Called("list_tasks") /\ Exited /\ exit_code = 0

\* the run is past the only-if-modified test of line 220
PastRegistration == Fetched /\ pc \notin {"override", "register"}

\* C17: without -O, a run that fetched the source task definition calls
\* register_task_definition exactly once by the time it is past line 224 and
\* never twice, whatever the overrides; with no override, or only overrides
\* that name no container or carry the current image, the payload is the source.
C17_UnconditionalRegistration ==
    (~args.onlyIfModified /\ Fetched) =>
        /\ CountCalls("register_task_definition") <= 1
        /\ Len(registered) = CountCalls("register_task_definition")
        /\ PastRegistration =>
              /\ CountCalls("register_task_definition") = 1
              /\ NoOpOverrides => registered = <<SourceTask>>

\* without -O, overrides that change nothing still led to one registration
\* of a payload equal to the source
C17_Witness ==
    /\ ~args.onlyIfModified /\ PastRegistration
    /\ images # <<>> /\ NoOpOverrides /\ ~has_update
    /\ registered = <<SourceTask>>
    /\ LastCall = Call("register_task_definition", SourceTask.family, None)
    /\ Exited /\ exit_code = 0

\* C18: from the override loop on, the fetched task definition keeps the
\* family, the volumes and every container (name, image, port mappings) that
\* describe_task_definition returned, also when the payload got other images
\* and at the blue/green hand-off.
C18_SourceNotMutated ==
    Fetched =>
        /\ task.family = SourceTask.family
        /\ task.volumes = SourceTask.volumes
        /\ Len(task.containerDefinitions) = Len(world.source)
        /\ \A k \in 1..Len(world.source) :
              /\ task.containerDefinitions[k].image = world.source[k].image
              /\ task.containerDefinitions[k] = world.source[k]

\* the payload got another image, was registered, and the fetched record
\* still has the old one
C18_Witness ==
    /\ Fetched /\ has_update /\ pc \notin {"override", "register"}
    /\ registered # <<>>
    /\ \E k \in 1..Len(world.source) :
          /\ registered[1].containerDefinitions[k].image # world.source[k].image
          /\ task.containerDefinitions[k].image = world.source[k].image

\* C19 (as claimed): while update is in effect (given with -u or switched on
\* by -k) together with a task-definition name given with -d, no remote call
\* is made and the run ends with exit code 1 (stated for the runs that name
\* a service).
C19_UpdateExcludesTaskName ==
    (args.update /\ HasTaskName /\ Truthy(args.service)) =>
        /\ calls = <<>>
        /\ pc = "done" => exit_code = 1

\* the polls wait_for_task made: its list_tasks calls
Polls == CountCalls("list_tasks")

\* the bound on the polls, and one poll at least before any result
PollBound ==
    /\ Polls <= (args.timeout \div args.backoff) + 1
    /\ wait_result # None => Polls >= 1
    /\ (wait_result = "False" /\ Elapsed = Polls * args.backoff) =>
          Polls = (args.timeout \div args.backoff) + 1

\* C20: for every backoff > 0 and timeout >= 0, wait_for_task polls at
\* least once before it returns (also with timeout 0), never polls more than
\* timeout \div backoff + 1 times, returns False after exactly that many polls
\* when each iteration takes the backoff and no more, and once entered it
\* always comes to its return or to the exception that ends the run.
C20_WaitTerminates ==
    /\ [](args.backoff > 0 /\ args.timeout >= 0 /\ PollBound)
    /\ (pc = "wait") ~> (pc \in {"finish", "done"})

\* timeout 3 and backoff 2: two polls without a match, one backoff each, and
\* wait_for_task returned False
C20_Witness ==
    /\ args.timeout = 3 /\ args.backoff = 2
    /\ wait_result = "False" /\ Polls = 2 /\ Elapsed = 4
    /\ Exited /\ exit_code = 1

====
